---- MODULE Spec2Model ----
(***************************************************************************)
(* Deployment orchestration of PositiveEvenSetterUpgradable.               *)
(*                                                                         *)
(* deployPositiveEvenSetterUpgradable is an async function: it runs from   *)
(* one await to the next.  Every action below is the code that runs when   *)
(* the awaited promise settles, up to and including the call that produces *)
(* the next awaited promise.  The entry-point scripts call it from main(), *)
(* whose rejection is caught by main().catch(...).                         *)
(*                                                                         *)
(* The collaborators (ethers, upgrades, the chain, the verify task) are    *)
(* not code of this repository: each of their calls either resolves or     *)
(* rejects, chosen nondeterministically.                                   *)
(***************************************************************************)
EXTENDS Integers, Sequences, FiniteSets, TLC

VARIABLES
    network,      \* hre.network.name, fixed for the chain the runs target
    run,          \* number of the current run (process) against that chain
    pc,           \* where the current run is suspended
    deployer,     \* const [deployer]
    proxy,        \* positiveEvenSetterUpgradable.address (0 = not deployed)
    implAddr,     \* positiveEvenSetterUpgradableAddressImpl (0 = unresolved)
    stdout,       \* lines written with console.log
    stderr,       \* values written with console.error
    exitCode,     \* process.exitCode: <<>> = undefined, <<n>> = set to n
    returned,     \* proxy address of the handle the function returned, 0 = none
    error,        \* the reason main().catch received, "none" while there is none
    now,          \* milliseconds since the process started
    timer,        \* <<>> = no timer, <<due>> = setTimeout pending until due
    sleepStart,   \* value of now when setTimeout was called (-1 = never)
    verifyAt,     \* value of now when verify:verify was invoked (-1 = never)
    verifyArg,    \* address passed to verify:verify (0 = none)
    calls,        \* per run: how often each collaborator was invoked
    settled,      \* per run: how each collaborator's promise settled
    signerList,   \* per run: the list ethers.getSigners resolved to
    thrown,       \* per run: the reason a collaborator rejected with
    nonce,        \* chain: next fresh contract address
    code,         \* chain: addresses that hold code
    slot,         \* chain: set of <<proxy, implementation>> ERC1967 slots
    manifest,     \* upgrades plugin: implementation on record (0 = none)
    deploys,      \* chain lifetime: number of upgrades.deployProxy invocations
    handles       \* <<proxy, implementation>> of every run that returned

vars == <<network, run, pc, deployer, proxy, implAddr, stdout, stderr, exitCode,
          returned, error, now, timer, sleepStart, verifyAt, verifyArg, calls,
          settled, signerList, thrown, nonce, code, slot, manifest, deploys,
          handles>>

chainVars == <<nonce, code, slot, manifest>>
outVars == <<stdout, stderr, exitCode, returned, error>>
timeVars == <<now, timer, sleepStart, verifyAt, verifyArg>>

----------------------------------------------------------------------------
(* Bounds *)

MaxRuns == 2
TickMs == 20000
MaxNow == 80000

Networks == {"hardhat", "localhost", "sepolia", "Hardhat"}
SignerLists == {<<>>, <<"signer0">>, <<"signer0", "signer1">>}
Collaborators == {"getSigners", "getContractFactory", "connect", "deployProxy",
                  "deployed", "getImplementationAddress", "setTimeout", "verify"}

----------------------------------------------------------------------------
(* Pure pieces of the code *)

\* const [deployer] = list
FirstOf(list) == IF Len(list) = 0 THEN "undefined" ELSE list[1]

SleepMsShort == 60000 \div 10

\* setTimeout(resolve, 60000)
SleepMs == 60000

GuardOr(name) == name # "hardhat" \/ name # "localhost"

\* hre.network.name !== "hardhat" && hre.network.name !== "localhost"
VerificationGuard(name) == name # "hardhat" /\ name # "localhost"

\* the two template strings (the back quotes around the names are left out)
ProxyLine(a) == <<"positiveEvenSetter is deployed to ", a, ".">>
ImplLine(a) == <<"positiveEvenSetterImpl is deployed to ", a, ".">>
SleepLine == <<"Sleeping before verification...">>

OnlyProxyLine(p, impl) == <<ProxyLine(p)>>

\* the two console.log calls after the implementation address is resolved
AddressLines(p, impl) == <<ProxyLine(p), ImplLine(impl)>>

\* the exit status of a node process that ends with process.exitCode = ec
ExitStatus(ec) == IF ec = <<>> THEN 0 ELSE ec[1]

Called(c) == [calls EXCEPT ![c] = @ + 1]
Settled(c, how) == [settled EXCEPT ![c] = how]

HasSlot(p) == \E s \in slot : s[1] = p
\* the implementation stored in the ERC1967 slot of proxy p
ImplOf(p) == (CHOOSE s \in slot : s[1] = p)[2]

----------------------------------------------------------------------------
(* main().catch((error) => {...}) *)

MainCatchNoExitCode(e) ==
    /\ stderr' = Append(stderr, e)
    /\ exitCode' = exitCode
    /\ error' = e
    /\ pc' = "failed"

MainCatchExitZero(e) ==
    /\ stderr' = Append(stderr, e)
    /\ exitCode' = <<0>>
    /\ error' = e
    /\ pc' = "failed"

MainCatch(e) ==
    /\ stderr' = Append(stderr, e)
    /\ exitCode' = <<1>>
    /\ error' = e
    /\ pc' = "failed"

\* collaborator c rejects with reason e: nothing in the function catches it
Reject(c, e) ==
    /\ settled' = Settled(c, "rejected")
    /\ thrown' = e
    /\ MainCatch(e)
    /\ UNCHANGED <<stdout, returned>>

\* return positiveEvenSetterUpgradable; main() resolves
Return(impl) ==
    /\ returned' = proxy
    /\ handles' = Append(handles, <<proxy, impl>>)
    /\ pc' = "done"

----------------------------------------------------------------------------
Init ==
    /\ network \in Networks
    /\ run = 1
    /\ pc = "start"
    /\ deployer = "unset"
    /\ proxy = 0
    /\ implAddr = 0
    /\ stdout = <<>>
    /\ stderr = <<>>
    /\ exitCode = <<>>
    /\ returned = 0
    /\ error = "none"
    /\ now = 0
    /\ timer = <<>>
    /\ sleepStart = -1
    /\ verifyAt = -1
    /\ verifyArg = 0
    /\ calls = [c \in Collaborators |-> 0]
    /\ settled = [c \in Collaborators |-> "none"]
    /\ signerList = <<>>
    /\ thrown = "none"
    /\ nonce = 1
    /\ code = {}
    /\ slot = {}
    /\ manifest = 0
    /\ deploys = 0
    /\ handles = <<>>

\* main() calls deployPositiveEvenSetterUpgradable(), which calls getSigners
Main ==
    /\ pc = "start"
    /\ pc' = "getSigners"
    /\ calls' = Called("getSigners")
    /\ UNCHANGED <<network, run, deployer, proxy, implAddr, settled, signerList,
                   thrown, deploys, handles>>
    /\ UNCHANGED <<chainVars, outVars, timeVars>>


\* variant: a rejected getSigners is caught and the run goes on without signer
GetSignersResolveSwallow ==
    /\ pc = "getSigners"
    /\ \/ /\ settled' = Settled("getSigners", "rejected")
          /\ thrown' = "SignerUnavailable"
          /\ signerList' = <<>>
          /\ deployer' = "undefined"
       \/ \E list \in SignerLists :
            /\ signerList' = list
            /\ deployer' = FirstOf(list)
            /\ settled' = Settled("getSigners", "ok")
            /\ UNCHANGED thrown
    /\ calls' = Called("getContractFactory")
    /\ pc' = "getContractFactory"
    /\ UNCHANGED <<network, run, proxy, implAddr, deploys, handles>>
    /\ UNCHANGED <<chainVars, timeVars, outVars>>

\* variant: an empty signer list is refused before the factory lookup
GetSignersResolveChecked ==
    /\ pc = "getSigners"
    /\ \/ /\ Reject("getSigners", "SignerUnavailable")
          /\ UNCHANGED <<deployer, calls, signerList>>
       \/ \E list \in SignerLists :
            /\ signerList' = list
            /\ deployer' = FirstOf(list)
            /\ settled' = Settled("getSigners", "ok")
            /\ IF list = <<>>
               THEN /\ thrown' = "SignerUnavailable"
                    /\ MainCatch("SignerUnavailable")
                    /\ UNCHANGED <<calls, stdout, returned>>
               ELSE /\ calls' = Called("getContractFactory")
                    /\ pc' = "getContractFactory"
                    /\ UNCHANGED <<thrown, outVars>>
    /\ UNCHANGED <<network, run, proxy, implAddr, deploys, handles>>
    /\ UNCHANGED <<chainVars, timeVars>>

\* ethers.getSigners() settles; on success the factory lookup is started
GetSignersResolve ==
    /\ pc = "getSigners"
    /\ \/ /\ Reject("getSigners", "SignerUnavailable")
          /\ UNCHANGED <<deployer, calls, signerList>>
       \/ \E list \in SignerLists :
            /\ signerList' = list
            /\ deployer' = FirstOf(list)
            /\ settled' = Settled("getSigners", "ok")
            /\ calls' = Called("getContractFactory")
            /\ pc' = "getContractFactory"
            /\ UNCHANGED <<thrown, outVars>>
    /\ UNCHANGED <<network, run, proxy, implAddr, deploys, handles>>
    /\ UNCHANGED <<chainVars, timeVars>>

\* variant: a run that finds an earlier handle takes it instead of deploying
GetContractFactoryResolveCached ==
    /\ pc = "getContractFactory"
    /\ \/ /\ Reject("getContractFactory", "FactoryLookupFailure")
          /\ UNCHANGED <<calls, deploys, proxy>>
       \/ /\ settled' = [settled EXCEPT !["getContractFactory"] = "ok",
                                        !["connect"] = "ok"]
          /\ IF handles # <<>>
             THEN /\ proxy' = handles[Len(handles)][1]
                  /\ calls' = [calls EXCEPT !["connect"] = @ + 1,
                                            !["getImplementationAddress"] = @ + 1]
                  /\ pc' = "getImplementationAddress"
                  /\ UNCHANGED deploys
             ELSE /\ calls' = [calls EXCEPT !["connect"] = @ + 1,
                                            !["deployProxy"] = @ + 1]
                  /\ deploys' = deploys + 1
                  /\ pc' = "deployProxy"
                  /\ UNCHANGED proxy
          /\ UNCHANGED <<thrown, outVars>>
    /\ UNCHANGED <<network, run, deployer, implAddr, signerList, handles>>
    /\ UNCHANGED <<chainVars, timeVars>>

\* getContractFactory settles; on success .connect(deployer) runs and
\* upgrades.deployProxy(factory, []) is called
GetContractFactoryResolve ==
    /\ pc = "getContractFactory"
    /\ \/ /\ Reject("getContractFactory", "FactoryLookupFailure")
          /\ UNCHANGED <<calls, deploys>>
       \/ /\ settled' = [settled EXCEPT !["getContractFactory"] = "ok",
                                        !["connect"] = "ok"]
          /\ calls' = [calls EXCEPT !["connect"] = @ + 1,
                                    !["deployProxy"] = @ + 1]
          /\ deploys' = deploys + 1
          /\ pc' = "deployProxy"
          /\ UNCHANGED <<thrown, outVars>>
    /\ UNCHANGED <<network, run, deployer, proxy, implAddr, signerList, handles>>
    /\ UNCHANGED <<chainVars, timeVars>>

\* upgrades.deployProxy settles.  It validates, deploys the implementation
\* (or takes the one on record), then sends the proxy's deployment; without
\* a signer it cannot send anything.  On success deployed() is called.
DeployProxyResolve ==
    /\ pc = "deployProxy"
    /\ \/ /\ Reject("deployProxy", "UnsafeImplementation")
          /\ UNCHANGED <<proxy, calls, chainVars>>
       \/ /\ deployer = "undefined"
          /\ Reject("deployProxy", "SignerUnavailable")
          /\ UNCHANGED <<proxy, calls, chainVars>>
       \/ /\ deployer # "undefined"
          /\ Reject("deployProxy", "TransactionFailure")
          /\ \/ UNCHANGED chainVars
             \/ /\ nonce' = nonce + 1
                /\ code' = code \cup {nonce}
                /\ manifest' = nonce
                /\ UNCHANGED slot
          /\ UNCHANGED <<proxy, calls>>
       \/ /\ deployer # "undefined"
          /\ \E reuse \in BOOLEAN :
               /\ reuse => manifest # 0
               /\ LET impl == IF reuse THEN manifest ELSE nonce
                      p == IF reuse THEN nonce ELSE nonce + 1
                  IN  /\ proxy' = p
                      /\ nonce' = p + 1
                      /\ code' = code \cup {impl}
                      /\ manifest' = impl
          /\ UNCHANGED slot
          /\ settled' = Settled("deployProxy", "ok")
          /\ calls' = Called("deployed")
          /\ pc' = "deployed"
          /\ UNCHANGED <<thrown, outVars>>
    /\ UNCHANGED <<network, run, deployer, implAddr, signerList, deploys, handles>>
    /\ UNCHANGED timeVars

\* variant: a rejected deployed() is caught and the run goes on (the
\* transaction is mined although the wait for it gave up)
DeployedResolveSwallow ==
    /\ pc = "deployed"
    /\ \/ /\ settled' = Settled("deployed", "rejected")
          /\ thrown' = "TransactionFailure"
       \/ /\ settled' = Settled("deployed", "ok")
          /\ UNCHANGED thrown
    /\ code' = code \cup {proxy}
    /\ slot' = slot \cup {<<proxy, manifest>>}
    /\ UNCHANGED <<nonce, manifest>>
    /\ calls' = Called("getImplementationAddress")
    /\ pc' = "getImplementationAddress"
    /\ UNCHANGED <<network, run, deployer, proxy, implAddr, signerList, deploys,
                   handles>>
    /\ UNCHANGED <<timeVars, outVars>>

\* positiveEvenSetterUpgradable.deployed() settles; on success
\* upgrades.erc1967.getImplementationAddress(proxy) is called
DeployedResolve ==
    /\ pc = "deployed"
    /\ \/ /\ Reject("deployed", "TransactionFailure")
          /\ UNCHANGED <<calls, chainVars>>
       \/ /\ code' = code \cup {proxy}
          /\ slot' = slot \cup {<<proxy, manifest>>}
          /\ UNCHANGED <<nonce, manifest>>
          /\ settled' = Settled("deployed", "ok")
          /\ calls' = Called("getImplementationAddress")
          /\ pc' = "getImplementationAddress"
          /\ UNCHANGED <<thrown, outVars>>
    /\ UNCHANGED <<network, run, deployer, proxy, implAddr, signerList, deploys,
                   handles>>
    /\ UNCHANGED timeVars

\* getImplementationAddress settles; on success both addresses are logged
\* and the verification guard either starts the 60 s sleep or is skipped
GetImplementationAddressResolve ==
    /\ pc = "getImplementationAddress"
    /\ \/ /\ Reject("getImplementationAddress", "ResolutionFailure")
          /\ UNCHANGED <<implAddr, calls, handles, timeVars>>
       \/ /\ HasSlot(proxy)
          /\ LET impl == ImplOf(proxy)
             IN  /\ implAddr' = impl
                 /\ settled' = Settled("getImplementationAddress", "ok")
                 /\ IF VerificationGuard(network)
                    THEN /\ stdout' = stdout \o AddressLines(proxy, impl)
                                             \o <<SleepLine>>
                         /\ timer' = <<now + SleepMs>>
                         /\ sleepStart' = now
                         /\ calls' = Called("setTimeout")
                         /\ pc' = "sleeping"
                         /\ UNCHANGED <<returned, handles>>
                    ELSE /\ stdout' = stdout \o AddressLines(proxy, impl)
                         /\ Return(impl)
                         /\ UNCHANGED <<timer, sleepStart, calls>>
          /\ UNCHANGED <<thrown, stderr, exitCode, error, now, verifyAt, verifyArg>>
    /\ UNCHANGED <<network, run, deployer, proxy, signerList, deploys>>
    /\ UNCHANGED chainVars

\* the timer set by setTimeout(resolve, 60000) expires: the sleep promise
\* resolves and hre.run("verify:verify", {address: impl, ...}) is called
TimerFire ==
    /\ pc = "sleeping"
    /\ timer # <<>>
    /\ now >= timer[1]
    /\ timer' = <<>>
    /\ settled' = Settled("setTimeout", "ok")
    /\ calls' = Called("verify")
    /\ verifyAt' = now
    /\ verifyArg' = implAddr
    /\ pc' = "verify"
    /\ UNCHANGED <<network, run, deployer, proxy, implAddr, signerList, thrown,
                   deploys, handles, now, sleepStart>>
    /\ UNCHANGED <<chainVars, outVars>>

\* variant: a rejected verification is caught and the handle is returned
VerifyResolveCaught ==
    /\ pc = "verify"
    /\ \/ /\ settled' = Settled("verify", "rejected")
          /\ thrown' = "VerificationFailure"
       \/ /\ settled' = Settled("verify", "ok")
          /\ UNCHANGED thrown
    /\ Return(implAddr)
    /\ UNCHANGED <<stdout, stderr, exitCode, error>>
    /\ UNCHANGED <<network, run, deployer, proxy, implAddr, calls, signerList,
                   deploys>>
    /\ UNCHANGED <<chainVars, timeVars>>

\* hre.run("verify:verify") settles; on success the handle is returned
VerifyResolve ==
    /\ pc = "verify"
    /\ \/ /\ Reject("verify", "VerificationFailure")
          /\ UNCHANGED handles
       \/ /\ settled' = Settled("verify", "ok")
          /\ Return(implAddr)
          /\ UNCHANGED <<thrown, stdout, stderr, exitCode, error>>
    /\ UNCHANGED <<network, run, deployer, proxy, implAddr, calls, signerList,
                   deploys>>
    /\ UNCHANGED <<chainVars, timeVars>>

Awaiting == {"getSigners", "getContractFactory", "deployProxy", "deployed",
             "getImplementationAddress", "sleeping", "verify"}

\* time passes while the run is suspended in an await
Tick ==
    /\ pc \in Awaiting
    /\ \/ now < MaxNow
       \/ pc = "sleeping" /\ now < timer[1]
    /\ now' = now + TickMs
    /\ UNCHANGED <<network, run, pc, deployer, proxy, implAddr, calls, settled,
                   signerList, thrown, deploys, handles, timer, sleepStart,
                   verifyAt, verifyArg>>
    /\ UNCHANGED <<chainVars, outVars>>

\* the script is started again, as a new process, against the same chain
NewRun ==
    /\ pc \in {"done", "failed"}
    /\ run < MaxRuns
    /\ run' = run + 1
    /\ pc' = "start"
    /\ deployer' = "unset"
    /\ proxy' = 0
    /\ implAddr' = 0
    /\ stdout' = <<>>
    /\ stderr' = <<>>
    /\ exitCode' = <<>>
    /\ returned' = 0
    /\ error' = "none"
    /\ now' = 0
    /\ timer' = <<>>
    /\ sleepStart' = -1
    /\ verifyAt' = -1
    /\ verifyArg' = 0
    /\ calls' = [c \in Collaborators |-> 0]
    /\ settled' = [c \in Collaborators |-> "none"]
    /\ signerList' = <<>>
    /\ thrown' = "none"
    /\ UNCHANGED <<network, deploys, handles>>
    /\ UNCHANGED chainVars

Next ==
    \/ Main
    \/ GetSignersResolve
    \/ GetContractFactoryResolve
    \/ DeployProxyResolve
    \/ DeployedResolve
    \/ GetImplementationAddressResolve
    \/ TimerFire
    \/ VerifyResolve
    \/ Tick
    \/ NewRun

Spec == Init /\ [][Next]_vars

----------------------------------------------------------------------------
(* Properties *)

Range(q) == {q[i] : i \in 1..Len(q)}
NetworkIsLocal == network \in {"hardhat", "localhost"}
Rejected(c) == settled[c] = "rejected"
RunEnded == pc \in {"done", "failed"}
\* the delay the specification asks for, in milliseconds
SixtySecondsMs == 60000

\* C1: on the networks "hardhat" and "localhost" the verification guard never
\* fires: the "Sleeping before verification..." line is never printed, no
\* timer is ever started and verify:verify is never invoked, in any state of
\* any run, whatever the earlier steps did.
C1_LocalNeverVerifies ==
    NetworkIsLocal =>
        /\ SleepLine \notin Range(stdout)
        /\ timer = <<>>
        /\ sleepStart = -1
        /\ calls["setTimeout"] = 0
        /\ calls["verify"] = 0
        /\ pc \notin {"sleeping", "verify"}

C1_Witness == NetworkIsLocal /\ pc = "done" /\ returned # 0

\* C2 (as stated): on every other network, every run that has ended has
\* invoked verify:verify exactly once.
C2_Original ==
    (~NetworkIsLocal /\ RunEnded) => calls["verify"] = 1

\* C2 (amended): on every other network verify:verify is invoked at most once
\* per run, and exactly once in every run in which the implementation address
\* was resolved and the sleep ended; it is invoked no less than 60 seconds
\* after the timer was started, only after getImplementationAddress has
\* resolved the implementation address of the deployed proxy, and with that
\* address.
C2_VerifiesOnceAfterDelay ==
    ~NetworkIsLocal =>
        /\ calls["verify"] <= 1
        /\ calls["setTimeout"] <= 1
        /\ (pc \in {"verify", "done"} \/ Rejected("verify")) => calls["verify"] = 1
        /\ (RunEnded /\ settled["setTimeout"] = "ok") => calls["verify"] = 1
        /\ calls["verify"] >= 1 =>
              /\ sleepStart >= 0
              /\ verifyAt - sleepStart >= SixtySecondsMs
              /\ settled["getImplementationAddress"] = "ok"
              /\ implAddr # 0
              /\ <<proxy, implAddr>> \in slot
              /\ verifyArg = implAddr

C2_Witness == ~NetworkIsLocal /\ pc = "done" /\ calls["verify"] = 1

\* C3: if ethers.getSigners rejects, upgrades.deployProxy and verify:verify
\* are never invoked in that run, on any network.
C3_SignerFailureStopsRun ==
    Rejected("getSigners") =>
        /\ calls["deployProxy"] = 0
        /\ calls["verify"] = 0

C3_Witness == Rejected("getSigners") /\ pc = "failed" /\ ~NetworkIsLocal

\* C4: if upgrades.deployProxy rejects, or deployed() rejects, no sleep is
\* started and verify:verify is not invoked in that run, on any network.
C4_DeployFailureNoVerify ==
    (Rejected("deployProxy") \/ Rejected("deployed")) =>
        /\ calls["verify"] = 0
        /\ calls["setTimeout"] = 0
        /\ timer = <<>>
        /\ SleepLine \notin Range(stdout)

C4_Witness == Rejected("deployed") /\ pc = "failed" /\ ~NetworkIsLocal

\* C5: a run in which every step succeeds ends with exit status 0 and an
\* empty standard error; a run in which any step rejects has the rejection
\* reason written to standard error exactly once and the exit code set to 1.
C5_ExitCodeAndStderr ==
    /\ pc = "done" =>
          /\ ExitStatus(exitCode) = 0
          /\ stderr = <<>>
          /\ \A c \in Collaborators : ~Rejected(c)
    /\ (\E c \in Collaborators : Rejected(c)) =>
          /\ pc = "failed"
          /\ stderr = <<thrown>>
          /\ error = thrown
          /\ exitCode = <<1>>
          /\ ExitStatus(exitCode) = 1
    /\ pc = "failed" => \E c \in Collaborators : Rejected(c)

C5_Witness == pc = "failed" /\ Rejected("verify") /\ stderr = <<"VerificationFailure">>

EmptySignerList == settled["getSigners"] = "ok" /\ signerList = <<>>

C7_LocalEndToEnd ==
    (NetworkIsLocal /\ pc = "done") =>
        /\ returned = proxy
        /\ proxy # 0
        /\ implAddr # 0
        /\ proxy \in code
        /\ implAddr \in code
        /\ Len(stdout) = 2
        /\ stdout = <<ProxyLine(proxy), ImplLine(implAddr)>>
        /\ ExitStatus(exitCode) = 0

C7_Witness == NetworkIsLocal /\ pc = "done" /\ Len(stdout) = 2 /\ run = 1

\* C8: on a network other than "hardhat" and "localhost", when deployProxy
\* rejects with UnsafeImplementation, that error reaches main, no address line
\* has been or is ever printed in that run, no handle is returned and the exit
\* code is 1.
C8_UnsafeBeforeAnyLog ==
    (~NetworkIsLocal /\ thrown = "UnsafeImplementation") =>
        /\ Rejected("deployProxy")
        /\ error = "UnsafeImplementation"
        /\ stdout = <<>>
        /\ returned = 0
        /\ ExitStatus(exitCode) = 1

C8_Witness == ~NetworkIsLocal /\ thrown = "UnsafeImplementation" /\ pc = "failed"

\* C9: every run that returns a handle has made its own deployProxy call; the
\* handles of two runs against the same chain are distinct pairs with
\* distinct proxy addresses, and no later run has changed the implementation
\* behind the proxy of an earlier run.
C9_NotIdempotent ==
    /\ \A i, j \in 1..Len(handles) :
          i < j => /\ handles[i] # handles[j]
                   /\ handles[i][1] # handles[j][1]
    /\ \A i \in 1..Len(handles) : handles[i] \in slot
    /\ \A s, t \in slot : s[1] = t[1] => s = t
    /\ Len(handles) <= deploys
    /\ pc = "done" => calls["deployProxy"] = 1

C9_Witness == Len(handles) >= 2 /\ handles[1][2] = handles[2][2]

\* C10: on a network other than "hardhat" and "localhost", when verify:verify
\* rejects after a successful deployment, the rejection reaches main: verify
\* was invoked once, no handle is returned, the proxy and the implementation
\* are still deployed, standard output holds the two address lines and then
\* the sleeping line, and the exit code is 1 as for every other failure.
C10_VerifyFailurePropagates ==
    /\ (~NetworkIsLocal /\ Rejected("verify")) =>
          /\ pc = "failed"
          /\ error = "VerificationFailure"
          /\ calls["verify"] = 1
          /\ returned = 0
          /\ proxy \in code
          /\ implAddr \in code
          /\ <<proxy, implAddr>> \in slot
          /\ stdout = <<ProxyLine(proxy), ImplLine(implAddr), SleepLine>>
          /\ ExitStatus(exitCode) = 1
    /\ pc = "failed" => ExitStatus(exitCode) = 1

C10_Witness == ~NetworkIsLocal /\ Rejected("verify") /\ pc = "failed" /\ proxy \in code

====
